---- MODULE Spec2Model ----
(***************************************************************************)
(* A model of the JSON helpers of core/json/Json.cpp (option-list          *)
(* encoding, bulk extraction, the mutex-guarded parser entry point) and of *)
(* server/ServerMain.cpp: main's startup sequence, the registration of the *)
(* URI handlers, the dispatch of requests and the signal/lifecycle         *)
(* controller.                                                             *)
(*                                                                         *)
(* A std::string is a sequence of one-character strings; a json::Value is  *)
(* a record [type, v]; a json::Array is a sequence of Values.              *)
(***************************************************************************)
EXTENDS Integers, Sequences, FiniteSets, TLC

VARIABLES
    optPc,        \* option-list driver: "encode", "encoded", "roundtrip", "raw", "rawdone", "idle"
    options,      \* the vector of (key, value) pairs handed to toJsonArray
    optionsArray, \* the json::Array under conversion
    decoded,      \* the vector returned by optionsFromJson
    fillPc,       \* bulk-extraction driver: "call", "returned", "idle"
    fillFn,       \* the helper called: "fillSetString", "fillVectorString", ...
    fillArg,      \* its first argument: a json::Array, or a json::Object for fillMap
    pOut,         \* the container behind pSet / pVector / pMap
    pOut0,        \* that container's contents when the call was made
    fillRet,      \* how the call ended: "true", "false", "exception", "abort"
    parsePc,      \* per thread, its place in parse: "idle", "lock", "read",
                  \* "reading", "returned", "returned_mutex_error"
    input,        \* per thread, the input argument of its call
    pValue,       \* per thread, the Value behind its pValue argument
    parseRet,     \* per thread, the result of its call
    s_spiritMutex,\* the thread holding the parser mutex, 0 when it is free
    spirit,       \* the input the grammar engine is working on
    mainPc,       \* where main is: the statement it is about to execute, from
                  \* "options.read" to "run", then "sigaction", "sigmask",
                  \* "sigwait" in waitForSignals, and "done"
    process,      \* "running", "exited" (main returned) or "signalled"
    exitStatus,   \* "none", "EXIT_SUCCESS", "EXIT_FAILURE", or the signal that
                  \* ended the process
    sigmask,      \* the signals blocked in the main thread
    disposition,  \* per signal, "SIG_DFL" or "handleSIGCHLD"
    pending,      \* the signals pending for the process
    sig,          \* the signal the last sigwait returned
    calls,        \* the collaborator and signal-API calls made so far
    serverOptions,\* the program options and the real user main runs with
    s_pHttpServer,\* "null", or "server" once httpServerInit has reset it
    effectiveUser,\* the user the process runs as
    registry,     \* the server's URI handler registrations, in order
    defaultHandler,  \* the server's default handler, "none" when unset
    notFoundHandler, \* the server's not-found handler, "none" when unset
    running,      \* the server's run has been invoked and succeeded
    request,      \* the last request the server dispatched
    served        \* how that request was served

optVars == <<optPc, options, optionsArray, decoded>>
fillVars == <<fillPc, fillFn, fillArg, pOut, pOut0, fillRet>>

parseVars == <<parsePc, input, pValue, parseRet, s_spiritMutex, spirit>>

\* the state of the HTTP server object and of the request it last served
httpVars ==
    <<s_pHttpServer, registry, defaultHandler, notFoundHandler, running,
      request, served>>

serverVars ==
    <<mainPc, process, exitStatus, sigmask, disposition, pending, sig, calls,
      serverOptions, effectiveUser, httpVars>>

vars == <<optVars, fillVars, parseVars, serverVars>>

\* the parts of the program not exercised by a specification stay idle
OptionsIdle ==
    optPc = "idle" /\ options = <<>> /\ optionsArray = <<>> /\ decoded = <<>>

FillIdle ==
    /\ fillPc = "idle" /\ fillFn = "none" /\ fillArg = <<>>
    /\ pOut = <<>> /\ pOut0 = <<>> /\ fillRet = "none"

ParseIdle ==
    /\ parsePc = <<>> /\ input = <<>> /\ pValue = <<>> /\ parseRet = <<>>
    /\ s_spiritMutex = 0 /\ spirit = "none"

ServerIdle ==
    /\ mainPc = "idle" /\ process = "idle" /\ exitStatus = "none"
    /\ sigmask = {} /\ disposition = <<>> /\ pending = {}
    /\ sig = "none" /\ calls = <<>>
    /\ serverOptions = <<>> /\ effectiveUser = "none"
    /\ s_pHttpServer = "null" /\ registry = <<>>
    /\ defaultHandler = "none" /\ notFoundHandler = "none"
    /\ running = FALSE /\ request = <<>> /\ served = <<>>

(***************************************************************************)
(* Bounds of the option-list state space.                                  *)
(***************************************************************************)
\* the most characters in all keys and values of one option list
MaxChars == 3
\* the most pairs in one option list, and elements in one raw array
MaxPairs == 2

\* the characters strings are built from: the delimiter, the escape
\* character and an ordinary character
Char == {"=", "\\", "a"}

StrsUpTo(n) == UNION {[1..k -> Char] : k \in 0..n}

PairsUpTo(n) == {p \in StrsUpTo(n) \X StrsUpTo(n) : Len(p[1]) + Len(p[2]) <= n}

RECURSIVE OptionLists(_, _)
OptionLists(k, n) ==
    IF k = 0 THEN {<<>>}
    ELSE {<<>>} \cup
         UNION {{<<p>> \o rest : rest \in OptionLists(k - 1, n - Len(p[1]) - Len(p[2]))}
                : p \in PairsUpTo(n)}

\* the example of the specification: ("foo", "bar=baz")
FooBar == <<<<"f", "o", "o">>, <<"b", "a", "r", "=", "b", "a", "z">>>>

StringValue(s) == [type |-> "str", v |-> s]

\* values of another type than string that an array may hold
IntValue(n) == [type |-> "int", v |-> n]
NullValue == [type |-> "null", v |-> <<>>]
NonStrings == {IntValue(1), NullValue}

RECURSIVE RawArrays(_, _)
RawArrays(k, n) ==
    IF k = 0 THEN {<<>>}
    ELSE {<<>>} \cup
         UNION {{<<e>> \o rest : rest \in RawArrays(k - 1, n - IF e.type = "str" THEN Len(e.v) ELSE 0)}
                : e \in {StringValue(s) : s \in StrsUpTo(n)} \cup NonStrings}

(***************************************************************************)
(* boost::replace_all_copy / boost::replace_all: every occurrence of       *)
(* `search`, found left to right, is replaced by `format`; the scan goes   *)
(* on after the occurrence, so replaced text is never searched again.      *)
(***************************************************************************)
RECURSIVE replace_all_copy(_, _, _)
replace_all_copy(str, search, format) ==
    IF Len(str) < Len(search) THEN str
    ELSE IF SubSeq(str, 1, Len(search)) = search
         THEN format \o replace_all_copy(
                  SubSeq(str, Len(search) + 1, Len(str)), search, format)
         ELSE <<Head(str)>> \o replace_all_copy(Tail(str), search, format)

Equals == <<"=">>
EscapedEquals == <<"\\", "=">>

\* one iteration of toJsonArray's loop: the element pushed for `option`
argVal_NoValueEscape(option) ==
    LET escapedKey == replace_all_copy(option[1], Equals, EscapedEquals)
        escapedValue == option[2]
    IN  IF escapedValue # <<>> THEN escapedKey \o Equals \o escapedValue
        ELSE escapedKey

argVal(option) ==
    LET escapedKey == replace_all_copy(option[1], Equals, EscapedEquals)
        escapedValue == replace_all_copy(option[2], Equals, EscapedEquals)
    IN  IF escapedValue # <<>> THEN escapedKey \o Equals \o escapedValue
        ELSE escapedKey

toJsonArray(opts) == [i \in 1..Len(opts) |-> StringValue(argVal(opts[i]))]

(***************************************************************************)
(* boost::regex_search(optionStr, results, "[^\\]="): the leftmost         *)
(* position p (1-based here) at which a character other than a backslash   *)
(* is followed by '='; 0 when there is no match.                           *)
(***************************************************************************)
regex_search(optionStr) ==
    LET hits == {p \in 1..(Len(optionStr) - 1) :
                    optionStr[p] # "\\" /\ optionStr[p + 1] = "="}
    IN  IF hits = {} THEN 0
        ELSE CHOOSE p \in hits : \A q \in hits : p <= q

\* the pair optionsFromJson pushes for one string element
optionFromString(optionStr) ==
    LET position == regex_search(optionStr)
    IN  IF position # 0
        THEN <<replace_all_copy(SubSeq(optionStr, 1, position),
                                EscapedEquals, Equals),
               replace_all_copy(SubSeq(optionStr, position + 2, Len(optionStr)),
                                EscapedEquals, Equals)>>
        ELSE <<replace_all_copy(optionStr, EscapedEquals, Equals), <<>>>>

RECURSIVE optionsFromJson(_)
optionsFromJson(optionsJson) ==
    IF optionsJson = <<>> THEN <<>>
    ELSE IF Head(optionsJson).type # "str"
         THEN optionsFromJson(Tail(optionsJson))
         ELSE <<optionFromString(Head(optionsJson).v)>>
              \o optionsFromJson(Tail(optionsJson))

(***************************************************************************)
(* The option-list driver: an option list is encoded and decoded again, or *)
(* an arbitrary array is decoded.                                          *)
(***************************************************************************)
InitOptions ==
    /\ FillIdle /\ ParseIdle /\ ServerIdle
    /\ decoded = <<>>
    /\ \/ /\ optPc = "encode"
          /\ options \in OptionLists(MaxPairs, MaxChars) \cup {<<FooBar>>}
          /\ optionsArray = <<>>
       \/ /\ optPc = "raw"
          /\ options = <<>>
          /\ optionsArray \in RawArrays(MaxPairs, MaxChars)

CallToJsonArray ==
    /\ optPc = "encode"
    /\ optionsArray' = toJsonArray(options)
    /\ optPc' = "encoded"
    /\ UNCHANGED <<options, decoded, fillVars, parseVars, serverVars>>

CallOptionsFromJson ==
    /\ optPc \in {"encoded", "raw"}
    /\ decoded' = optionsFromJson(optionsArray)
    /\ optPc' = IF optPc = "encoded" THEN "roundtrip" ELSE "rawdone"
    /\ UNCHANGED <<options, optionsArray, fillVars, parseVars, serverVars>>

NextOptions == CallToJsonArray \/ CallOptionsFromJson

SpecOptions == InitOptions /\ [][NextOptions]_vars

(***************************************************************************)
(* Claims about the option-list encoding.                                  *)
(***************************************************************************)
HasEquals(s) == \E i \in 1..Len(s) : s[i] = "="

\* C1: an option list every pair of which holds an '=' in its key or its
\* value (empty keys, empty values and backslashes allowed) is returned
\* unchanged, element for element and in order, by
\* optionsFromJson(toJsonArray(pairs)).
C1_RoundTrip ==
    (/\ optPc = "roundtrip"
     /\ \A i \in 1..Len(options) :
            HasEquals(options[i][1]) \/ HasEquals(options[i][2]))
    => decoded = options

\* the split rule as the specification words it: the first '=' that has no
\* backslash right before it, an '=' at the first position included
FirstUnescapedEquals(s) ==
    LET cuts == {i \in 1..Len(s) :
                    s[i] = "=" /\ (i = 1 \/ s[i - 1] # "\\")}
    IN  IF cuts = {} THEN 0 ELSE CHOOSE i \in cuts : \A j \in cuts : i <= j

SplitOnFirstUnescapedEquals(s) ==
    LET i == FirstUnescapedEquals(s)
    IN  IF i = 0 THEN <<replace_all_copy(s, EscapedEquals, Equals), <<>>>>
        ELSE <<replace_all_copy(SubSeq(s, 1, i - 1), EscapedEquals, Equals),
               replace_all_copy(SubSeq(s, i + 1, Len(s)), EscapedEquals, Equals)>>

IsString(value) == value.type = "str"

\* C2: optionsFromJson turns every string element of the array, in order,
\* into the pair obtained by splitting it at its first '=' not preceded by a
\* backslash (an '=' at index 0 included) and unescaping both halves; an
\* element without such an '=' gives (unescaped element, "").
C2_SplitRule ==
    optPc \in {"roundtrip", "rawdone"} =>
        LET strings == SelectSeq(optionsArray, IsString)
        IN  decoded = [i \in 1..Len(strings) |->
                          SplitOnFirstUnescapedEquals(strings[i].v)]

\* every '=' of s preceded by a backslash, character by character
RECURSIVE EveryEqualsEscaped(_)
EveryEqualsEscaped(s) ==
    IF s = <<>> THEN <<>>
    ELSE (IF Head(s) = "=" THEN <<"\\", "=">> ELSE <<Head(s)>>)
         \o EveryEqualsEscaped(Tail(s))

FooBarEncoded ==
    <<"f", "o", "o", "=", "b", "a", "r", "\\", "=", "b", "a", "z">>

\* C3: toJsonArray yields one string element per pair, in order: the
\* escaped key alone when the value is empty, otherwise escaped key, '=',
\* escaped value; ("foo", "bar=baz") encodes to foo=bar\=baz and decodes
\* back to ("foo", "bar=baz").
C3_Encoding ==
    optPc \in {"encoded", "roundtrip"} =>
        /\ Len(optionsArray) = Len(options)
        /\ \A i \in 1..Len(options) :
              /\ optionsArray[i].type = "str"
              /\ optionsArray[i].v =
                    IF options[i][2] = <<>>
                    THEN EveryEqualsEscaped(options[i][1])
                    ELSE EveryEqualsEscaped(options[i][1]) \o <<"=">>
                         \o EveryEqualsEscaped(options[i][2])
        /\ options = <<FooBar>> =>
              /\ optionsArray = <<StringValue(FooBarEncoded)>>
              /\ optPc = "roundtrip" => decoded = <<FooBar>>

C3_Witness ==
    /\ optPc = "roundtrip"
    /\ options = <<FooBar>>
    /\ optionsArray = <<StringValue(FooBarEncoded)>>
    /\ decoded = <<FooBar>>

(***************************************************************************)
(* Bulk extraction: fillSetString, fillVectorString, fillVectorInt,        *)
(* fillMap.                                                                *)
(***************************************************************************)
\* the most elements in an array handed to a helper
MaxArrayLen == 2

ArrayValue(a) == [type |-> "array", v |-> a]
ObjectValue == [type |-> "obj", v |-> <<>>]

\* the elements an array may hold
Elems == {StringValue(<<"a">>), StringValue(<<"b">>),
          IntValue(1), IntValue(2), NullValue}

ArraysUpTo(n) == UNION {[1..k -> Elems] : k \in 0..n}

\* member names, in the order std::map iterates them
Names == <<"a", "b">>

\* what a member of an object may hold
MemberValues ==
    {ArrayValue(a) : a \in ArraysUpTo(MaxArrayLen)}
    \cup {StringValue(<<"a">>), IntValue(1), NullValue, ObjectValue}

\* json::Object: a map from member names to Values
Objects ==
    UNION {[D -> MemberValues] : D \in SUBSET {Names[i] : i \in 1..Len(Names)}}

\* the member names of `object` from begin() to end()
Iteration(object) == SelectSeq(Names, LAMBDA n : n \in DOMAIN object)

EmptyMap == [n \in {} |-> <<>>]

isTypeString(value) == value.type = "str"
isTypeInt(value) == value.type = "int"

RECURSIVE fillSetString(_, _)
fillSetString(array, pSet) ==
    IF array = <<>> THEN [ret |-> "true", out |-> pSet]
    ELSE IF ~isTypeString(Head(array)) THEN [ret |-> "false", out |-> pSet]
    ELSE fillSetString(Tail(array), pSet \cup {Head(array).v})

\* fillVectorString with the mismatching elements skipped
RECURSIVE fillVectorString_SkipMismatch(_, _)
fillVectorString_SkipMismatch(array, pVector) ==
    IF array = <<>> THEN [ret |-> "true", out |-> pVector]
    ELSE IF ~isTypeString(Head(array))
         THEN fillVectorString_SkipMismatch(Tail(array), pVector)
    ELSE fillVectorString_SkipMismatch(Tail(array), Append(pVector, Head(array).v))

RECURSIVE fillVectorString(_, _)
fillVectorString(array, pVector) ==
    IF array = <<>> THEN [ret |-> "true", out |-> pVector]
    ELSE IF ~isTypeString(Head(array)) THEN [ret |-> "false", out |-> pVector]
    ELSE fillVectorString(Tail(array), Append(pVector, Head(array).v))

\* fillVectorInt leaving the vector as it was when it returns false
fillVectorInt_AllOrNothing(array, pVector) ==
    IF \A i \in 1..Len(array) : isTypeInt(array[i])
    THEN [ret |-> "true", out |-> pVector \o [i \in 1..Len(array) |-> array[i].v]]
    ELSE [ret |-> "false", out |-> pVector]

RECURSIVE fillVectorInt(_, _)
fillVectorInt(array, pVector) ==
    IF array = <<>> THEN [ret |-> "true", out |-> pVector]
    ELSE IF ~isTypeInt(Head(array)) THEN [ret |-> "false", out |-> pVector]
    ELSE fillVectorInt(Tail(array), Append(pVector, Head(array).v))

(***************************************************************************)
(* Value::get_array() returns a reference to the stored array and has no   *)
(* way to report a mismatch to its caller: on a Value of another type it   *)
(* throws (json_spirit's check_type) or aborts (its assert), depending on  *)
(* the build.  fillMap catches nothing, so either ends the call.           *)
(***************************************************************************)
GetArrayMismatch == {"exception", "abort"}

\* fillMap's loop over the members `its` still to visit; "mismatch" stands
\* for get_array() called on a Value that is no array
RECURSIVE fillMapLoop(_, _, _)
fillMapLoop(object, its, pMap) ==
    IF its = <<>> THEN [ret |-> "true", out |-> pMap]
    ELSE LET it == Head(its)
             second == object[it]
         IN  IF second.type # "array" THEN [ret |-> "mismatch", out |-> pMap]
             ELSE LET filled == fillVectorString(second.v, <<>>)
                  IN  IF filled.ret # "true" THEN [ret |-> "false", out |-> pMap]
                      ELSE fillMapLoop(object, Tail(its),
                                       (it :> filled.out) @@ pMap)

fillMap(object, pMap) == fillMapLoop(object, Iteration(object), pMap)

InitFill ==
    /\ OptionsIdle /\ ParseIdle /\ ServerIdle
    /\ fillPc = "call"
    /\ fillRet = "none"
    /\ \/ /\ fillFn = "fillSetString"
          /\ fillArg \in ArraysUpTo(MaxArrayLen)
          /\ pOut \in {{}, {<<"a">>}, {<<"z">>}}
       \/ /\ fillFn = "fillVectorString"
          /\ fillArg \in ArraysUpTo(MaxArrayLen)
          /\ pOut \in {<<>>, <<<<"z">>>>}
       \/ /\ fillFn = "fillVectorInt"
          /\ fillArg \in ArraysUpTo(MaxArrayLen)
          /\ pOut \in {<<>>, <<7>>}
       \/ /\ fillFn = "fillMap"
          /\ fillArg \in Objects
          /\ pOut \in {EmptyMap, ("b" :> <<<<"z">>>>)}
    /\ pOut0 = pOut

Returned(result) ==
    /\ pOut' = result.out
    /\ fillRet' = result.ret
    /\ fillPc' = "returned"
    /\ UNCHANGED <<fillFn, fillArg, pOut0, optVars, parseVars, serverVars>>

CallFillSetString ==
    /\ fillPc = "call" /\ fillFn = "fillSetString"
    /\ Returned(fillSetString(fillArg, pOut))

CallFillVectorString ==
    /\ fillPc = "call" /\ fillFn = "fillVectorString"
    /\ Returned(fillVectorString(fillArg, pOut))

CallFillVectorInt ==
    /\ fillPc = "call" /\ fillFn = "fillVectorInt"
    /\ Returned(fillVectorInt(fillArg, pOut))

CallFillMap ==
    /\ fillPc = "call" /\ fillFn = "fillMap"
    /\ LET result == fillMap(fillArg, pOut)
       IN  IF result.ret = "mismatch"
           THEN \E outcome \in GetArrayMismatch :
                    Returned([ret |-> outcome, out |-> result.out])
           ELSE Returned(result)

NextFill ==
    \/ CallFillSetString
    \/ CallFillVectorString
    \/ CallFillVectorInt
    \/ CallFillMap

SpecFill == InitFill /\ [][NextFill]_vars

(***************************************************************************)
(* Claims about bulk extraction.                                           *)
(***************************************************************************)
\* C4: for every Object with a member whose value is not an Array, fillMap
\* returns false; it neither throws nor aborts.
C4_FillMapReturnsFalse ==
    (/\ fillPc = "returned"
     /\ fillFn = "fillMap"
     /\ \E n \in DOMAIN fillArg : fillArg[n].type # "array")
    => fillRet = "false"

RequiredType(fn) == IF fn = "fillVectorInt" THEN "int" ELSE "str"

Payloads(array) == [i \in 1..Len(array) |-> array[i].v]

\* C5: fillSetString, fillVectorString and fillVectorInt return true
\* exactly when every element of the array has the required type, and then
\* the container holds what it held before plus the array's elements (a
\* vector: appended in array order).
C5_FillAllOrFalse ==
    (fillPc = "returned" /\ fillFn # "fillMap") =>
        /\ fillRet \in {"true", "false"}
        /\ fillRet = "true" <=>
              \A i \in 1..Len(fillArg) : fillArg[i].type = RequiredType(fillFn)
        /\ fillRet = "true" =>
              IF fillFn = "fillSetString"
              THEN pOut = pOut0 \cup {fillArg[i].v : i \in 1..Len(fillArg)}
              ELSE pOut = pOut0 \o Payloads(fillArg)

C5_Witness ==
    /\ fillPc = "returned"
    /\ fillFn = "fillVectorString"
    /\ fillRet = "true"
    /\ pOut0 = <<<<"z">>>>
    /\ pOut = <<<<"z">>, <<"b">>, <<"a">>>>

\* the elements of array before its first element that is not of type
FirstMismatchPrefix(array, type) ==
    LET k == CHOOSE i \in 1..Len(array) :
                 /\ array[i].type # type
                 /\ \A j \in 1..(i - 1) : array[j].type = type
    IN  SubSeq(array, 1, k - 1)

\* v is an array whose elements are all strings
StringArray(v) ==
    v.type = "array" /\ \A i \in 1..Len(v.v) : v.v[i].type = "str"

\* C21: a helper that returns false leaves a partial result.  After
\* fillSetString, fillVectorString or fillVectorInt the container holds what
\* it held before plus exactly the elements before the first mismatching
\* one.  After fillMap, which returns false at the first member whose array
\* has a non-string element, the call has written the entries of exactly the
\* members iterated before that member, none for the failing member, and
\* every other entry is as it was.
C21_PartialFillOnFailure ==
    (fillPc = "returned" /\ fillRet = "false") =>
        IF fillFn = "fillMap"
        THEN LET its == Iteration(fillArg)
             IN  \E f \in 1..Len(its) :
                    LET before == {its[j] : j \in 1..(f - 1)}
                    IN  /\ fillArg[its[f]].type = "array"
                        /\ ~StringArray(fillArg[its[f]])
                        /\ \A n \in before : StringArray(fillArg[n])
                        /\ DOMAIN pOut = DOMAIN pOut0 \cup before
                        /\ \A n \in before : pOut[n] = Payloads(fillArg[n].v)
                        /\ \A n \in DOMAIN pOut \ before : pOut[n] = pOut0[n]
                        /\ its[f] \in DOMAIN pOut => its[f] \in DOMAIN pOut0
        ELSE LET kept == FirstMismatchPrefix(fillArg, RequiredType(fillFn))
             IN  IF fillFn = "fillSetString"
                 THEN pOut = pOut0 \cup {kept[i].v : i \in 1..Len(kept)}
                 ELSE pOut = pOut0 \o Payloads(kept)

\* fillVectorInt has returned false on [1, "a"]: the vector that held 7 now
\* holds 7 and 1
C21_Witness ==
    /\ fillPc = "returned" /\ fillFn = "fillVectorInt" /\ fillRet = "false"
    /\ fillArg = <<IntValue(1), StringValue(<<"a">>)>>
    /\ pOut0 = <<7>>
    /\ pOut = <<7, 1>>


(***************************************************************************)
(* parse: json_spirit::read under the process-wide mutex s_spiritMutex.    *)
(* The grammar engine is shared by all callers: a read loads its input     *)
(* into the engine and later takes its result from the engine.             *)
(***************************************************************************)
\* the number of threads that may call parse
NumThreads == 2

Threads == 1..NumThreads

\* wire inputs: two well-formed, two malformed
Inputs == {"{}", "[1]", "{", "]"}

WellFormed(in) == in \in {"{}", "[1]"}

\* the caller's Value as it was before the call
Unset == [kind |-> "unset", of |-> "none"]
\* the tree a successful read of `in` stores
TreeOf(in) == [kind |-> "tree", of |-> in]
\* what a failed read of `in` may have stored before it failed
PartialOf(in) == [kind |-> "partial", of |-> in]

InitParse ==
    /\ OptionsIdle /\ FillIdle /\ ServerIdle
    /\ parsePc = [t \in Threads |-> "idle"]
    /\ input = [t \in Threads |-> "none"]
    /\ pValue = [t \in Threads |-> Unset]
    /\ parseRet = [t \in Threads |-> "none"]
    /\ s_spiritMutex = 0
    /\ spirit = "none"

\* a thread calls parse(in, &value)
Call(t, in) ==
    /\ parsePc[t] = "idle"
    /\ input' = [input EXCEPT ![t] = in]
    /\ parsePc' = [parsePc EXCEPT ![t] = "lock"]
    /\ UNCHANGED <<pValue, parseRet, s_spiritMutex, spirit, optVars, fillVars, serverVars>>

\* LOCK_MUTEX without the wait for the mutex to be free
Lock_NoWait(t) ==
    /\ parsePc[t] = "lock"
    /\ s_spiritMutex' = t
    /\ parsePc' = [parsePc EXCEPT ![t] = "read"]
    /\ UNCHANGED <<input, pValue, parseRet, spirit, optVars, fillVars, serverVars>>

\* LOCK_MUTEX(s_spiritMutex): blocks until the mutex is free, then owns it
Lock(t) ==
    /\ parsePc[t] = "lock"
    /\ s_spiritMutex = 0
    /\ s_spiritMutex' = t
    /\ parsePc' = [parsePc EXCEPT ![t] = "read"]
    /\ UNCHANGED <<input, pValue, parseRet, spirit, optVars, fillVars, serverVars>>

\* END_LOCK_MUTEX: locking failed; the error is caught and parse returns
\* false at its last line
LockError(t) ==
    /\ parsePc[t] = "lock"
    /\ parseRet' = [parseRet EXCEPT ![t] = "false"]
    /\ parsePc' = [parsePc EXCEPT ![t] = "returned_mutex_error"]
    /\ UNCHANGED <<input, pValue, s_spiritMutex, spirit, optVars, fillVars, serverVars>>

\* json_spirit::read is entered: the engine takes the caller's input
ReadBegin(t) ==
    /\ parsePc[t] = "read"
    /\ spirit' = input[t]
    /\ parsePc' = [parsePc EXCEPT ![t] = "reading"]
    /\ UNCHANGED <<input, pValue, parseRet, s_spiritMutex, optVars, fillVars, serverVars>>

\* what the read stores and returns, taken from the engine
ReadResult(t) ==
    /\ parseRet' = [parseRet EXCEPT
                       ![t] = IF WellFormed(spirit) THEN "true" ELSE "false"]
    /\ IF WellFormed(spirit)
       THEN pValue' = [pValue EXCEPT ![t] = TreeOf(spirit)]
       ELSE \E stored \in {pValue[t], PartialOf(spirit)} :
                pValue' = [pValue EXCEPT ![t] = stored]

\* the read returns and parse returns with the mutex still held
ReadEnd_KeepLocked(t) ==
    /\ parsePc[t] = "reading"
    /\ ReadResult(t)
    /\ parsePc' = [parsePc EXCEPT ![t] = "returned"]
    /\ UNCHANGED <<input, spirit, s_spiritMutex, optVars, fillVars, serverVars>>

\* json_spirit::read returns; parse returns its result, and leaving the
\* locked block releases the mutex
ReadEnd(t) ==
    /\ parsePc[t] = "reading"
    /\ ReadResult(t)
    /\ s_spiritMutex' = 0
    /\ parsePc' = [parsePc EXCEPT ![t] = "returned"]
    /\ UNCHANGED <<input, spirit, optVars, fillVars, serverVars>>

NextParse ==
    \E t \in Threads :
        \/ \E in \in Inputs : Call(t, in)
        \/ Lock(t)
        \/ LockError(t)
        \/ ReadBegin(t)
        \/ ReadEnd(t)

SpecParse == InitParse /\ [][NextParse]_vars

\* a thread that can run does run; a thread need not call parse, and
\* locking need not fail
FairSpecParse ==
    /\ SpecParse
    /\ \A t \in Threads :
          WF_vars(Lock(t)) /\ WF_vars(ReadBegin(t)) /\ WF_vars(ReadEnd(t))

(***************************************************************************)
(* Claims about parse.                                                     *)
(***************************************************************************)
InRead(t) == parsePc[t] = "reading"

\* C6: whatever the interleaving, at most one thread is inside
\* json_spirit::read, and a thread inside it holds the parser mutex.
C6_ReadUnderMutex ==
    /\ \A t \in Threads : InRead(t) => s_spiritMutex = t
    /\ \A t, u \in Threads : InRead(t) /\ InRead(u) => t = u

\* one thread is inside the read while another waits for the mutex
C6_Witness ==
    \E t, u \in Threads :
        /\ InRead(t) /\ s_spiritMutex = t
        /\ t # u /\ parsePc[u] = "lock"

HasReturned(t) == parsePc[t] \in {"returned", "returned_mutex_error"}

\* the result and the output of a finished call are those of its own input
OwnResult(t) ==
    /\ parseRet[t] \in {"true", "false"}
    /\ ~WellFormed(input[t]) => parseRet[t] = "false"
    /\ parsePc[t] = "returned" =>
          (parseRet[t] = "true" <=> WellFormed(input[t]))
    /\ parseRet[t] = "true" => pValue[t] = TreeOf(input[t])
    /\ parseRet[t] = "false" => pValue[t] \in {Unset, PartialOf(input[t])}

\* C7: with concurrent calls on different inputs and outputs, every call
\* eventually returns, a call on malformed input returns false, and each
\* call's result and output Value are those of its own input.
C7_ParseReturnsOwnResult ==
    /\ [](\A t \in Threads : HasReturned(t) => OwnResult(t))
    /\ \A t \in Threads : (parsePc[t] = "lock") ~> HasReturned(t)

\* two calls on different malformed inputs have both gone through the read
\* and returned false
C7_Witness ==
    /\ parsePc[1] = "returned" /\ parsePc[2] = "returned"
    /\ input[1] = "{" /\ input[2] = "]"
    /\ parseRet[1] = "false" /\ parseRet[2] = "false"

(***************************************************************************)
(* The HTTP server behind s_pHttpServer: its table of URI handlers and the *)
(* handlers ServerMain.cpp registers in it.  A prefix and a request path   *)
(* are strings, that is sequences of characters, so that "is a prefix of"  *)
(* is the literal relation on strings.                                     *)
(***************************************************************************)
\* the handler values ServerMain.cpp builds: the wrapper applied, the function
\* it wraps, and whether a failed authentication is answered by a redirect to
\* the sign-in page
secureAsyncJsonRpcHandler(h) ==
    [wrapper |-> "secureAsyncJsonRpcHandler", wrapped |-> h, authenticate |-> FALSE]

secureAsyncHttpHandler(h, authenticate) ==
    [wrapper |-> "secureAsyncHttpHandler", wrapped |-> h,
     authenticate |-> authenticate]

secureAsyncUploadHandler(h) ==
    [wrapper |-> "secureAsyncUploadHandler", wrapped |-> h, authenticate |-> FALSE]

secureJsonRpcHandler(h) ==
    [wrapper |-> "secureJsonRpcHandler", wrapped |-> h, authenticate |-> FALSE]

secureHttpHandler(h) ==
    [wrapper |-> "secureHttpHandler", wrapped |-> h, authenticate |-> FALSE]

\* a handler function registered as it is
Unwrapped(h) == [wrapper |-> "none", wrapped |-> h, authenticate |-> FALSE]

\* the wrappers of the secure asynchronous dispatcher
SecureAsyncWrappers ==
    {"secureAsyncJsonRpcHandler", "secureAsyncHttpHandler",
     "secureAsyncUploadHandler"}

\* the wrappers that authenticate the request before the wrapped function
SecureWrappers ==
    SecureAsyncWrappers \cup {"secureJsonRpcHandler", "secureHttpHandler"}

\* what the server stores for addHandler, addProxyHandler and
\* addBlockingHandler
addHandler(prefix, handler) ==
    [prefix |-> prefix, handler |-> handler, mode |-> "async", proxy |-> FALSE]

addProxyHandler(prefix, handler) ==
    [prefix |-> prefix, handler |-> handler, mode |-> "async", proxy |-> TRUE]

addBlockingHandler(prefix, handler) ==
    [prefix |-> prefix, handler |-> handler, mode |-> "blocking", proxy |-> FALSE]

\* server::browser::kBrowserUnsupported
kBrowserUnsupported == <<"/", "u", "n", "s", "u", "p", "p", "o", "r", "t", "e", "d", "_", "b", "r", "o", "w", "s", "e", "r", ".", "h", "t", "m">>

\* httpServerAddHandlers: the uri_handlers::add calls
AsyncHandlers ==
    <<addHandler(<<"/", "r", "p", "c">>,
         secureAsyncJsonRpcHandler("proxyRpcRequest")),
      addHandler(<<"/", "e", "v", "e", "n", "t", "s">>,
         secureAsyncJsonRpcHandler("proxyEventsRequest")),
      addHandler(<<"/", "g", "r", "a", "p", "h", "i", "c", "s">>,
         secureAsyncHttpHandler("proxyContentRequest", FALSE)),
      addHandler(<<"/", "u", "p", "l", "o", "a", "d">>,
         secureAsyncUploadHandler("proxyContentRequest")),
      addHandler(<<"/", "e", "x", "p", "o", "r", "t">>,
         secureAsyncHttpHandler("proxyContentRequest", FALSE)),
      addHandler(<<"/", "s", "o", "u", "r", "c", "e">>,
         secureAsyncHttpHandler("proxyContentRequest", FALSE)),
      addHandler(<<"/", "c", "o", "n", "t", "e", "n", "t">>,
         secureAsyncHttpHandler("proxyContentRequest", FALSE)),
      addHandler(<<"/", "d", "i", "f", "f">>,
         secureAsyncHttpHandler("proxyContentRequest", FALSE)),
      addHandler(<<"/", "f", "i", "l", "e", "_", "s", "h", "o", "w">>,
         secureAsyncHttpHandler("proxyContentRequest", FALSE)),
      addHandler(<<"/", "v", "i", "e", "w", "_", "p", "d", "f">>,
         secureAsyncHttpHandler("proxyContentRequest", FALSE)),
      addHandler(<<"/", "a", "g", "r", "e", "e", "m", "e", "n", "t">>,
         secureAsyncHttpHandler("proxyContentRequest", FALSE)),
      addHandler(<<"/", "p", "r", "e", "s", "e", "n", "t", "a", "t", "i", "o", "n">>,
         secureAsyncHttpHandler("proxyContentRequest", FALSE)),
      addHandler(<<"/", "p", "d", "f", "_", "j", "s">>,
         secureAsyncHttpHandler("proxyContentRequest", FALSE)),
      addHandler(<<"/", "m", "a", "t", "h", "j", "a", "x">>,
         secureAsyncHttpHandler("proxyContentRequest", FALSE)),
      addHandler(<<"/", "c", "o", "n", "n", "e", "c", "t", "i", "o", "n", "s">>,
         secureAsyncHttpHandler("proxyContentRequest", FALSE)),
      addHandler(<<"/", "t", "h", "e", "m", "e">>,
         secureAsyncHttpHandler("proxyContentRequest", FALSE)),
      addHandler(<<"/", "p", "y", "t", "h", "o", "n">>,
         secureAsyncHttpHandler("proxyContentRequest", FALSE)),
      addHandler(<<"/", "h", "e", "l", "p">>,
         secureAsyncHttpHandler("proxyContentRequest", TRUE)),
      addHandler(<<"/", "f", "i", "l", "e", "s">>,
         secureAsyncHttpHandler("proxyContentRequest", TRUE)),
      addHandler(<<"/", "c", "u", "s", "t", "o", "m">>,
         secureAsyncHttpHandler("proxyContentRequest", TRUE)),
      addHandler(<<"/", "s", "e", "s", "s", "i", "o", "n">>,
         secureAsyncHttpHandler("proxyContentRequest", TRUE)),
      addHandler(<<"/", "d", "o", "c", "s">>,
         secureAsyncHttpHandler("secureAsyncFileHandler", TRUE)),
      addHandler(<<"/", "h", "t", "m", "l", "_", "p", "r", "e", "v", "i", "e", "w">>,
         secureAsyncHttpHandler("proxyContentRequest", TRUE)),
      addHandler(<<"/", "r", "m", "d", "_", "o", "u", "t", "p", "u", "t">>,
         secureAsyncHttpHandler("proxyContentRequest", TRUE)),
      addHandler(<<"/", "g", "r", "i", "d", "_", "d", "a", "t", "a">>,
         secureAsyncHttpHandler("proxyContentRequest", TRUE)),
      addHandler(<<"/", "g", "r", "i", "d", "_", "r", "e", "s", "o", "u", "r", "c", "e">>,
         secureAsyncHttpHandler("proxyContentRequest", TRUE)),
      addHandler(<<"/", "c", "h", "u", "n", "k", "_", "o", "u", "t", "p", "u", "t">>,
         secureAsyncHttpHandler("proxyContentRequest", TRUE)),
      addHandler(<<"/", "p", "r", "o", "f", "i", "l", "e", "s">>,
         secureAsyncHttpHandler("proxyContentRequest", TRUE)),
      addHandler(<<"/", "r", "m", "d", "_", "d", "a", "t", "a">>,
         secureAsyncHttpHandler("proxyContentRequest", TRUE)),
      addHandler(<<"/", "p", "r", "o", "f", "i", "l", "e", "r", "_", "r", "e", "s", "o", "u", "r", "c", "e">>,
         secureAsyncHttpHandler("proxyContentRequest", TRUE))>>

\* the proxy handlers registered under /p and /p6, without the closing slash
ProxyHandlers_NoClosingSlash(wwwProxyLocalhost) ==
    IF wwwProxyLocalhost
    THEN <<addProxyHandler(<<"/", "p">>,
              secureAsyncHttpHandler("proxyLocalhostRequest(false)", TRUE)),
           addProxyHandler(<<"/", "p", "6">>,
              secureAsyncHttpHandler("proxyLocalhostRequest(true)", TRUE))>>
    ELSE <<>>

\* httpServerAddHandlers: the addProxyHandler calls made when
\* options().wwwProxyLocalhost() holds
ProxyHandlers(wwwProxyLocalhost) ==
    IF wwwProxyLocalhost
    THEN <<addProxyHandler(<<"/", "p", "/">>,
              secureAsyncHttpHandler("proxyLocalhostRequest(false)", TRUE)),
           addProxyHandler(<<"/", "p", "6", "/">>,
              secureAsyncHttpHandler("proxyLocalhostRequest(true)", TRUE))>>
    ELSE <<>>

\* httpServerAddHandlers: the uri_handlers::addBlocking calls
BlockingHandlers ==
    <<addBlockingHandler(<<"/", "l", "o", "g">>,
         secureJsonRpcHandler("gwt::handleLogRequest")),
      addBlockingHandler(<<"/", "m", "e", "t", "a">>,
         secureJsonRpcHandler("meta::handleMetaRequest")),
      addBlockingHandler(<<"/", "p", "r", "o", "g", "r", "e", "s", "s">>,
         secureHttpHandler("handleSecureTemplateRequest(progress.htm)")),
      addBlockingHandler(kBrowserUnsupported,
         Unwrapped("handleBrowserUnsupportedRequest")),
      addBlockingHandler(<<"/", "t", "e", "m", "p", "l", "a", "t", "e", "s">>,
         Unwrapped("pageNotFoundHandler"))>>

\* the registrations httpServerAddHandlers makes, in the order of its calls
HandlerTable(wwwProxyLocalhost) ==
    AsyncHandlers \o ProxyHandlers(wwwProxyLocalhost) \o BlockingHandlers

(***************************************************************************)
(* The signal/lifecycle controller: main from s_pHttpServer->run on, and   *)
(* waitForSignals.  The server's pool threads keep every signal blocked,   *)
(* so a signal sent to the process is taken by the main thread: it stays   *)
(* pending while main blocks it and is otherwise handled at once according *)
(* to its disposition.                                                     *)
(***************************************************************************)
\* the most signals the wait loop takes from sigwait
MaxWaits == 3

wait_mask == {"SIGCHLD", "SIGINT", "SIGQUIT", "SIGTERM", "SIGHUP"}

TerminateSignals == {"SIGINT", "SIGQUIT", "SIGTERM"}

\* the default disposition of SIGCHLD ignores it; that of the others ends
\* the process
DefaultTerminates(s) == s # "SIGCHLD"

Entry(call, result) == [call |-> call, result |-> result]

NumCalls(log, call) == Cardinality({i \in 1..Len(log) : log[i].call = call})

OthersIdle == OptionsIdle /\ FillIdle /\ ParseIdle

idleVars == <<optVars, fillVars, parseVars>>

\* what main has set up when it reaches run, untouched by waitForSignals
setupVars ==
    <<serverOptions, effectiveUser, s_pHttpServer, registry, defaultHandler,
      notFoundHandler, request, served>>

fixedVars == <<idleVars, setupVars, running>>

\* the options of a server started in the foreground by root, online, with a
\* server user to run as
ServingOptions ==
    [status |-> "run", serverDaemonize |-> FALSE, serverSetUmask |-> FALSE,
     realUserIsRoot |-> TRUE, verifyInstallation |-> FALSE,
     serverOffline |-> FALSE, serverUser |-> "rstudio-server",
     wwwProxyLocalhost |-> FALSE]

\* the same server started offline: main then registers the offline default
\* handler only
OfflineOptions == [ServingOptions EXCEPT !.serverOffline = TRUE]

\* no request has been dispatched
NoRequest == [path |-> <<>>, cookie |-> "none"]

NotServed ==
    [route |-> "none", prefix |-> <<>>, invoked |-> "none", principal |-> "",
     notFound |-> "none", resolved |-> FALSE, rendered |-> FALSE,
     response |-> [status |-> "none", contentType |-> "", body |-> ""]]

\* main has reached s_pHttpServer->run, in the offline configuration
InitServer ==
    /\ OthersIdle
    /\ mainPc = "run"
    /\ process = "running"
    /\ exitStatus = "none"
    /\ sigmask = {}
    /\ disposition = [s \in wait_mask |-> "SIG_DFL"]
    /\ pending = {}
    /\ sig = "none"
    /\ calls = <<>>
    /\ serverOptions = OfflineOptions
    /\ effectiveUser = OfflineOptions.serverUser
    /\ s_pHttpServer = "server"
    /\ registry = <<>>
    /\ defaultHandler = "offline::handleOfflineRequest"
    /\ notFoundHandler = "pageNotFoundHandler"
    /\ running = FALSE
    /\ request = NoRequest
    /\ served = NotServed

\* return core::system::exitFailure(error, ERROR_LOCATION) in main
exitFailure(log) ==
    /\ calls' = log
    /\ mainPc' = "done"
    /\ process' = "exited"
    /\ exitStatus' = "EXIT_FAILURE"

\* the process is ended by signal s
KilledBy(s) ==
    /\ mainPc' = "done"
    /\ process' = "signalled"
    /\ exitStatus' = s

\* run invoked one statement early, before the not-found handler is set
RunServer_BeforeNotFoundHandler ==
    /\ mainPc = "setNotFoundHandler" /\ process = "running" /\ ~running
    /\ \E ok \in BOOLEAN :
          IF ok
          THEN /\ calls' = Append(calls, Entry("run", "ok"))
               /\ running' = TRUE
               /\ UNCHANGED <<mainPc, process, exitStatus>>
          ELSE /\ exitFailure(Append(calls, Entry("run", "error")))
               /\ UNCHANGED running
    /\ UNCHANGED <<sigmask, disposition, pending, sig, idleVars, setupVars>>

\* s_pHttpServer->run(options.wwwThreadPoolSize())
RunServer ==
    /\ mainPc = "run" /\ process = "running"
    /\ \E ok \in BOOLEAN :
          IF ok
          THEN /\ calls' = Append(calls, Entry("run", "ok"))
               /\ mainPc' = "sigaction"
               /\ running' = TRUE
               /\ UNCHANGED <<process, exitStatus>>
          ELSE /\ exitFailure(Append(calls, Entry("run", "error")))
               /\ UNCHANGED running
    /\ UNCHANGED <<sigmask, disposition, pending, sig, idleVars, setupVars>>

\* waitForSignals: the handleSIGCHLD handler is installed
InstallSIGCHLDHandler ==
    /\ mainPc = "sigaction" /\ process = "running"
    /\ \E ok \in BOOLEAN :
          IF ok
          THEN /\ calls' = Append(calls, Entry("sigaction(SIGCHLD)", "ok"))
               /\ disposition' =
                     [disposition EXCEPT !["SIGCHLD"] = "handleSIGCHLD"]
               /\ mainPc' = "sigmask"
               /\ UNCHANGED <<process, exitStatus>>
          ELSE /\ exitFailure(Append(calls, Entry("sigaction(SIGCHLD)", "error")))
               /\ UNCHANGED disposition
    /\ UNCHANGED <<sigmask, pending, sig, fixedVars>>

\* the blocking step with a mask that holds SIGCHLD alone
BlockWaitMask_OnlySIGCHLD ==
    /\ mainPc = "sigmask" /\ process = "running"
    /\ \E ok \in BOOLEAN :
          IF ok
          THEN /\ calls' = Append(calls, Entry("pthread_sigmask(SIG_BLOCK)", "ok"))
               /\ sigmask' = sigmask \cup {"SIGCHLD"}
               /\ mainPc' = "sigwait"
               /\ UNCHANGED <<process, exitStatus>>
          ELSE /\ exitFailure(
                     Append(calls, Entry("pthread_sigmask(SIG_BLOCK)", "error")))
               /\ UNCHANGED sigmask
    /\ UNCHANGED <<disposition, pending, sig, fixedVars>>

\* waitForSignals: pthread_sigmask(SIG_BLOCK, &wait_mask, NULL)
BlockWaitMask ==
    /\ mainPc = "sigmask" /\ process = "running"
    /\ \E ok \in BOOLEAN :
          IF ok
          THEN /\ calls' = Append(calls, Entry("pthread_sigmask(SIG_BLOCK)", "ok"))
               /\ sigmask' = sigmask \cup wait_mask
               /\ mainPc' = "sigwait"
               /\ UNCHANGED <<process, exitStatus>>
          ELSE /\ exitFailure(
                     Append(calls, Entry("pthread_sigmask(SIG_BLOCK)", "error")))
               /\ UNCHANGED sigmask
    /\ UNCHANGED <<disposition, pending, sig, fixedVars>>

\* ::sigwait(&wait_mask, &sig) returns s, one of the pending signals of the set
SigwaitReturns(s) ==
    /\ mainPc = "sigwait" /\ process = "running"
    /\ s \in pending \cap wait_mask
    /\ NumCalls(calls, "sigwait") < MaxWaits
    /\ sig' = s

\* ::sigwait fails: waitForSignals returns the error and main exits
SigwaitFails ==
    /\ mainPc = "sigwait" /\ process = "running"
    /\ exitFailure(Append(calls, Entry("sigwait", "error")))
    /\ UNCHANGED <<sigmask, disposition, pending, sig, fixedVars>>

\* the SIGCHLD branch without its call
HandleSIGCHLD_NoNotify ==
    /\ SigwaitReturns("SIGCHLD")
    /\ pending' = pending \ {"SIGCHLD"}
    /\ calls' = calls \o <<Entry("sigwait", "SIGCHLD")>>
    /\ UNCHANGED <<mainPc, process, exitStatus, sigmask, disposition, fixedVars>>

\* sig == SIGCHLD: sessionManager().notifySIGCHLD()
HandleSIGCHLD ==
    /\ SigwaitReturns("SIGCHLD")
    /\ pending' = pending \ {"SIGCHLD"}
    /\ calls' = calls \o <<Entry("sigwait", "SIGCHLD"),
                           Entry("notifySIGCHLD", "ok")>>
    /\ UNCHANGED <<mainPc, process, exitStatus, sigmask, disposition, fixedVars>>

\* the SIGHUP branch with a failed reload treated as fatal
HandleSIGHUP_FailureFatal ==
    /\ SigwaitReturns("SIGHUP")
    /\ pending' = pending \ {"SIGHUP"}
    /\ \E reloaded \in {"true", "false"} :
          LET log == calls \o <<Entry("sigwait", "SIGHUP"),
                                Entry("overlay::reloadConfiguration", reloaded)>>
          IN  IF reloaded = "true"
              THEN calls' = log /\ UNCHANGED <<mainPc, process, exitStatus>>
              ELSE exitFailure(log)
    /\ UNCHANGED <<sigmask, disposition, fixedVars>>

\* sig == SIGHUP: reloadConfiguration(), which calls
\* overlay::reloadConfiguration() and drops its result
HandleSIGHUP ==
    /\ SigwaitReturns("SIGHUP")
    /\ pending' = pending \ {"SIGHUP"}
    /\ \E reloaded \in {"true", "false"} :
          calls' = calls \o <<Entry("sigwait", "SIGHUP"),
                              Entry("overlay::reloadConfiguration", reloaded)>>
    /\ UNCHANGED <<mainPc, process, exitStatus, sigmask, disposition, fixedVars>>

\* the terminate branch re-raising the signal before it calls
\* overlay::shutdown
HandleTerminate_KillFirst ==
    \E s \in TerminateSignals :
        /\ SigwaitReturns(s)
        /\ calls' = calls \o <<Entry("sigwait", s),
                               Entry("kill", s),
                               Entry("overlay::shutdown", "ok"),
                               Entry("clearSignalMask", "ok"),
                               Entry("sigaction(sig, SIG_DFL)", "ok")>>
        /\ sigmask' = {}
        /\ disposition' = [disposition EXCEPT ![s] = "SIG_DFL"]
        /\ pending' = pending \ {s}
        /\ KilledBy(s)
        /\ UNCHANGED fixedVars

(***************************************************************************)
(* sig == SIGINT, SIGQUIT or SIGTERM: overlay::shutdown(), then            *)
(* clearSignalMask(), sigaction(sig, SIG_DFL) and kill(getpid(), sig); a   *)
(* failure of the second or third is logged and the branch goes on.        *)
(*   - Unblocking delivers what is pending: a pending SIGCHLD runs the     *)
(*     empty handler, any other pending signal ends the process at once.   *)
(*   - The signal sent by kill ends the process when it is unblocked.      *)
(*     When it is still blocked it becomes pending, kill returns and the   *)
(*     for(;;) loop goes back to sigwait.                                  *)
(***************************************************************************)
HandleTerminate ==
    \E s \in TerminateSignals, cleared \in BOOLEAN, reset \in BOOLEAN :
        /\ SigwaitReturns(s)
        /\ LET left == pending \ {s}
               killers == {k \in left :
                              disposition[k] = "SIG_DFL" /\ DefaultTerminates(k)}
               log1 == calls \o <<Entry("sigwait", s),
                                  Entry("overlay::shutdown", "ok"),
                                  Entry("clearSignalMask",
                                        IF cleared THEN "ok" ELSE "error")>>
           IN  IF cleared /\ killers # {}
               THEN \E k \in killers :
                        /\ KilledBy(k)
                        /\ calls' = log1
                        /\ sigmask' = {}
                        /\ pending' = left \ {k}
                        /\ UNCHANGED disposition
               ELSE LET mask2 == IF cleared THEN {} ELSE sigmask
                        left2 == IF cleared THEN left \ {"SIGCHLD"} ELSE left
                        log2 ==
                            log1
                            \o (IF cleared THEN <<>>
                                ELSE <<Entry("LOG_ERROR", "clearSignalMask")>>)
                            \o <<Entry("sigaction(sig, SIG_DFL)",
                                       IF reset THEN "ok" ELSE "error")>>
                            \o (IF reset THEN <<>>
                                ELSE <<Entry("LOG_ERROR", "sigaction")>>)
                            \o <<Entry("kill", s)>>
                    IN  /\ calls' = log2
                        /\ sigmask' = mask2
                        /\ disposition' =
                              IF reset THEN [disposition EXCEPT ![s] = "SIG_DFL"]
                              ELSE disposition
                        /\ IF s \notin mask2
                           THEN KilledBy(s) /\ pending' = left2
                           ELSE /\ pending' = left2 \cup {s}
                                /\ UNCHANGED <<mainPc, process, exitStatus>>
        /\ UNCHANGED fixedVars

\* a signal of the wait mask is sent to the process
Deliver(s) ==
    /\ process = "running"
    /\ \/ /\ s \in sigmask
          /\ pending' = pending \cup {s}
          /\ UNCHANGED <<mainPc, process, exitStatus>>
       \/ /\ s \notin sigmask
          /\ disposition[s] = "SIG_DFL" /\ DefaultTerminates(s)
          /\ KilledBy(s)
          /\ UNCHANGED pending
       \/ /\ s \notin sigmask
          /\ ~(disposition[s] = "SIG_DFL" /\ DefaultTerminates(s))
          /\ UNCHANGED <<mainPc, process, exitStatus, pending>>
    /\ UNCHANGED <<sigmask, disposition, sig, calls, fixedVars>>

Next ==
    \/ RunServer
    \/ InstallSIGCHLDHandler
    \/ BlockWaitMask
    \/ SigwaitFails
    \/ HandleSIGCHLD
    \/ HandleTerminate
    \/ HandleSIGHUP
    \/ \E s \in wait_mask : Deliver(s)

Spec == InitServer /\ [][Next]_vars

(***************************************************************************)
(* Claims about the signal/lifecycle controller.                           *)
(***************************************************************************)
\* C8: once the wait loop has taken a SIGINT, SIGQUIT or SIGTERM,
\* overlay::shutdown has been called exactly once and the process is ended
\* by that signal; the loop takes no further signal and never calls shutdown
\* a second time, also when clearing the mask or resetting the disposition
\* fails.
C8_ShutdownOnceThenTerminated ==
    /\ NumCalls(calls, "overlay::shutdown") <= 1
    /\ NumCalls(calls, "overlay::shutdown") = 1 =>
          process = "signalled" /\ exitStatus = sig

\* this step is a loop iteration in which sigwait returned s
WaitReturned(s) ==
    /\ Len(calls') > Len(calls)
    /\ calls'[Len(calls) + 1] = Entry("sigwait", s)

\* the loop is back at sigwait and nothing but the log and the pending set
\* has changed
StillRunning ==
    /\ mainPc' = "sigwait"
    /\ process' = "running"
    /\ UNCHANGED <<exitStatus, sigmask, disposition>>

\* C9: an iteration whose sigwait returned SIGCHLD makes exactly one
\* notifySIGCHLD call and no other (no shutdown, no reload, no change of
\* mask or disposition), and leaves the controller running at sigwait.
C9_SIGCHLDOnlyNotifies ==
    [][WaitReturned("SIGCHLD") =>
          /\ calls' = calls \o <<Entry("sigwait", "SIGCHLD"),
                                 Entry("notifySIGCHLD", "ok")>>
          /\ StillRunning]_vars

C9_Witness ==
    /\ sig = "SIGCHLD"
    /\ NumCalls(calls, "notifySIGCHLD") = 2
    /\ calls[Len(calls)] = Entry("notifySIGCHLD", "ok")
    /\ mainPc = "sigwait" /\ process = "running"

\* C10: an iteration whose sigwait returned SIGHUP calls the reload
\* collaborator exactly once and, whether the reload succeeded or failed,
\* nothing else: the controller is running at sigwait again, with no
\* shutdown and no exit.
C10_SIGHUPOnlyReloads ==
    [][WaitReturned("SIGHUP") =>
          /\ \E reloaded \in {"true", "false"} :
                calls' = calls \o <<Entry("sigwait", "SIGHUP"),
                                    Entry("overlay::reloadConfiguration", reloaded)>>
          /\ StillRunning]_vars

\* a failed reload was followed by the handling of another signal
C10_Witness ==
    /\ process = "running" /\ mainPc = "sigwait"
    /\ \E i \in 1..Len(calls) :
          /\ calls[i] = Entry("overlay::reloadConfiguration", "false")
          /\ i + 2 <= Len(calls)
          /\ calls[i + 1] = Entry("sigwait", "SIGCHLD")
          /\ calls[i + 2] = Entry("notifySIGCHLD", "ok")

\* pthread_sigmask(SIG_BLOCK) has succeeded: the for(;;) loop was entered
LoopEntered ==
    \E i \in 1..Len(calls) :
        calls[i] = Entry("pthread_sigmask(SIG_BLOCK)", "ok")

\* C11: the wait loop is the only consumer of SIGCHLD, SIGINT, SIGQUIT,
\* SIGTERM and SIGHUP.  All five are blocked whenever the loop is at sigwait;
\* a step of the loop phase that is not a loop iteration changes nothing but
\* the pending set (no default disposition, no handleSIGCHLD run); the
\* process is ended by a signal only in the handling of a terminate signal;
\* and waitForSignals returns only with the error of a failed sigwait, never
\* Success.
C11_LoopOnlyConsumer ==
    /\ [](mainPc = "sigwait" => wait_mask \subseteq sigmask)
    /\ []((LoopEntered /\ process = "signalled") =>
              NumCalls(calls, "overlay::shutdown") >= 1)
    /\ []((LoopEntered /\ process = "exited") =>
              /\ calls[Len(calls)] = Entry("sigwait", "error")
              /\ exitStatus = "EXIT_FAILURE")
    /\ [][(mainPc = "sigwait" /\ calls' = calls) =>
              UNCHANGED <<mainPc, process, exitStatus, sigmask, disposition, sig>>]_vars

\* all five signals were sent while the loop was waiting and are pending,
\* and the loop has already dispatched one
C11_Witness ==
    /\ mainPc = "sigwait" /\ process = "running"
    /\ pending = wait_mask
    /\ NumCalls(calls, "sigwait") >= 1

\* the signal-API calls of waitForSignals
SignalApiCalls ==
    {"sigaction(SIGCHLD)", "pthread_sigmask(SIG_BLOCK)", "sigwait",
     "clearSignalMask", "sigaction(sig, SIG_DFL)"}

\* C12: every failure of a signal-API call is fatal: the failed call is the
\* last thing waitForSignals did, and main has exited with failure.
C12_SignalApiFailureFatal ==
    \A i \in 1..Len(calls) :
        (calls[i].call \in SignalApiCalls /\ calls[i].result = "error") =>
            /\ i = Len(calls)
            /\ process = "exited"
            /\ exitStatus = "EXIT_FAILURE"

\* the calls the terminate branch makes
TerminateSteps ==
    {"overlay::shutdown", "clearSignalMask", "sigaction(sig, SIG_DFL)", "kill"}

\* the index of the last sigwait entry before position k
LastWait(k) ==
    CHOOSE i \in 1..k :
        /\ calls[i].call = "sigwait"
        /\ \A j \in (i + 1)..k : calls[j].call # "sigwait"

\* C20: a terminate signal is re-raised only as the last step of its
\* iteration: between the sigwait that returned it and the kill, the log
\* holds overlay::shutdown, then clearSignalMask, then the disposition reset,
\* in this order and once each, and no kill comes before shutdown returned.
C20_TerminateOrder ==
    \A k \in 1..Len(calls) :
        calls[k].call = "kill" =>
            LET w == LastWait(k)
                steps == SelectSeq(SubSeq(calls, w + 1, k),
                                   LAMBDA e : e.call \in TerminateSteps)
            IN  /\ calls[w].result = calls[k].result
                /\ Len(steps) = 4
                /\ steps[1].call = "overlay::shutdown"
                /\ steps[2].call = "clearSignalMask"
                /\ steps[3].call = "sigaction(sig, SIG_DFL)"
                /\ steps[4].call = "kill"

\* SIGTERM was taken, shutdown, mask and disposition were handled without
\* error, and the re-raised SIGTERM has ended the process
C20_Witness ==
    /\ process = "signalled" /\ exitStatus = "SIGTERM"
    /\ Len(calls) >= 5
    /\ calls[Len(calls)] = Entry("kill", "SIGTERM")
    /\ calls[Len(calls) - 1] = Entry("sigaction(sig, SIG_DFL)", "ok")
    /\ calls[Len(calls) - 2] = Entry("clearSignalMask", "ok")
    /\ calls[Len(calls) - 3] = Entry("overlay::shutdown", "ok")

(***************************************************************************)
(* main, from its first statement to the call of waitForSignals.  Each     *)
(* action is one statement or if-block of main; mainPc names the statement *)
(* main is about to execute.  What the options hold is fixed when the      *)
(* process starts; what a collaborator returns is chosen when it is        *)
(* called.                                                                 *)
(***************************************************************************)
\* the options main reads, with the real user of the process: the flags that
\* are only read under another flag are left off where that flag is off
ProgramOptions ==
    {o \in [status : {"run", "exitSuccess", "exitFailure"},
            serverDaemonize : BOOLEAN,
            serverSetUmask : BOOLEAN,
            realUserIsRoot : BOOLEAN,
            verifyInstallation : BOOLEAN,
            serverOffline : BOOLEAN,
            serverUser : {"", "rstudio-server"},
            wwwProxyLocalhost : BOOLEAN] :
        /\ o.serverSetUmask => o.serverDaemonize
        /\ o.wwwProxyLocalhost => ~o.serverOffline
        /\ o.status # "run" =>
              /\ ~o.serverDaemonize /\ ~o.verifyInstallation
              /\ ~o.serverOffline /\ ~o.wwwProxyLocalhost
              /\ o.serverUser = "" /\ o.realUserIsRoot}

sigVars == <<sigmask, disposition, pending, sig>>

InitMain ==
    /\ OthersIdle
    /\ mainPc = "options.read"
    /\ process = "running"
    /\ exitStatus = "none"
    /\ sigmask = {}
    /\ disposition = [s \in wait_mask |-> "SIG_DFL"]
    /\ pending = {}
    /\ sig = "none"
    /\ calls = <<>>
    /\ serverOptions \in ProgramOptions
    /\ effectiveUser = IF serverOptions.realUserIsRoot THEN "root" ELSE "user"
    /\ s_pHttpServer = "null"
    /\ registry = <<>>
    /\ defaultHandler = "none"
    /\ notFoundHandler = "none"
    /\ running = FALSE
    /\ request = NoRequest
    /\ served = NotServed

\* main is about to execute the statement named step
At(step) == mainPc = step /\ process = "running"

\* main goes on to the statement named next
Proceed(log, next) ==
    /\ calls' = log
    /\ mainPc' = next
    /\ UNCHANGED <<process, exitStatus>>

\* main returns code
Returns(log, code) ==
    /\ calls' = log
    /\ mainPc' = "done"
    /\ process' = "exited"
    /\ exitStatus' = code

\* a step whose error is logged and then ignored
ErrorStep_ErrorIgnored(step, call, next) ==
    /\ At(step)
    /\ \E ok \in BOOLEAN :
          Proceed(Append(calls, Entry(call, IF ok THEN "ok" ELSE "error")), next)

\* error = call(); if (error) return core::system::exitFailure(error, ...)
ErrorStep(step, call, next) ==
    /\ At(step)
    /\ \E ok \in BOOLEAN :
          IF ok
          THEN Proceed(Append(calls, Entry(call, "ok")), next)
          ELSE exitFailure(Append(calls, Entry(call, "error")))

\* initializeSystemLog, ignoreSignal(SigPipe), options.read and the return
\* of status.exitCode() when status.exit() holds
ReadOptions ==
    /\ At("options.read")
    /\ LET log == calls \o <<Entry("initializeSystemLog", "ok"),
                             Entry("ignoreSignal(SigPipe)", "ok"),
                             Entry("options.read", serverOptions.status)>>
       IN  IF serverOptions.status = "run"
           THEN Proceed(log, "daemonize")
           ELSE Returns(log, IF serverOptions.status = "exitSuccess"
                             THEN "EXIT_SUCCESS" ELSE "EXIT_FAILURE")
    /\ UNCHANGED <<sigVars, idleVars, serverOptions, effectiveUser, httpVars>>

\* if (options.serverDaemonize()): daemonize, ignoreTerminalSignals, setUMask
Daemonize ==
    /\ At("daemonize")
    /\ IF ~serverOptions.serverDaemonize
       THEN Proceed(calls, "setResourceLimit")
       ELSE \E daemonized \in BOOLEAN, ignored \in BOOLEAN :
               LET log1 == Append(calls, Entry("daemonize",
                                     IF daemonized THEN "ok" ELSE "error"))
                   log2 == Append(log1, Entry("ignoreTerminalSignals",
                                     IF ignored THEN "ok" ELSE "error"))
                   log3 == IF serverOptions.serverSetUmask
                           THEN Append(log2, Entry("setUMask", "ok"))
                           ELSE log2
               IN  IF ~daemonized THEN exitFailure(log1)
                   ELSE IF ~ignored THEN exitFailure(log2)
                   ELSE Proceed(log3, "setResourceLimit")
    /\ UNCHANGED <<sigVars, idleVars, serverOptions, effectiveUser, httpVars>>

\* if (core::system::realUserIsRoot()) setResourceLimit(FilesLimit, 4096)
SetResourceLimit ==
    /\ IF serverOptions.realUserIsRoot
       THEN ErrorStep("setResourceLimit", "setResourceLimit", "makeCurrentPath")
       ELSE At("setResourceLimit") /\ Proceed(calls, "makeCurrentPath")
    /\ UNCHANGED <<sigVars, idleVars, serverOptions, effectiveUser, httpVars>>

\* FilePath(options.serverWorkingDir()).makeCurrentPath()
MakeCurrentPath ==
    /\ ErrorStep("makeCurrentPath", "makeCurrentPath", "crypto::initialize")
    /\ UNCHANGED <<sigVars, idleVars, serverOptions, effectiveUser, httpVars>>

\* core::system::crypto::initialize()
CryptoInitialize ==
    /\ At("crypto::initialize")
    /\ Proceed(Append(calls, Entry("crypto::initialize", "ok")),
               "secure_cookie::initialize")
    /\ UNCHANGED <<sigVars, idleVars, serverOptions, effectiveUser, httpVars>>

\* core::http::secure_cookie::initialize(options.secureCookieKeyFile())
SecureCookieInitialize ==
    /\ ErrorStep("secure_cookie::initialize", "secure_cookie::initialize",
                 "session_proxy::initialize")
    /\ UNCHANGED <<sigVars, idleVars, serverOptions, effectiveUser, httpVars>>

\* session_proxy::initialize()
SessionProxyInitialize ==
    /\ ErrorStep("session_proxy::initialize", "session_proxy::initialize",
                 "httpServerInit")
    /\ UNCHANGED <<sigVars, idleVars, serverOptions, effectiveUser, httpVars>>

\* httpServerInit leaving s_pHttpServer as it was
httpServerInit_NoReset ==
    /\ ErrorStep("httpServerInit", "httpServerInit",
                 "process_supervisor::initialize")
    /\ UNCHANGED <<sigVars, idleVars, serverOptions, effectiveUser, httpVars>>

\* httpServerInit(): s_pHttpServer is reset to the created server, whose
\* initialization may fail
httpServerInit ==
    /\ ErrorStep("httpServerInit", "httpServerInit",
                 "process_supervisor::initialize")
    /\ s_pHttpServer' = "server"
    /\ UNCHANGED <<sigVars, idleVars, serverOptions, effectiveUser, registry,
                   defaultHandler, notFoundHandler, running, request, served>>

\* process_supervisor::initialize()
ProcessSupervisorInitialize ==
    /\ ErrorStep("process_supervisor::initialize",
                 "process_supervisor::initialize", "initializeMonitorClient")
    /\ UNCHANGED <<sigVars, idleVars, serverOptions, effectiveUser, httpVars>>

\* monitor::initializeMonitorClient(..., s_pHttpServer->ioService()) and,
\* outside verify-installation mode, core::system::addLogWriter
InitializeMonitorClient ==
    /\ At("initializeMonitorClient")
    /\ LET log == Append(calls, Entry("initializeMonitorClient", "ok"))
       IN  Proceed(IF serverOptions.verifyInstallation THEN log
                   ELSE Append(log, Entry("addLogWriter", "ok")),
                   "overlay::initialize")
    /\ UNCHANGED <<sigVars, idleVars, serverOptions, effectiveUser, httpVars>>

\* overlay::initialize()
OverlayInitialize ==
    /\ ErrorStep("overlay::initialize", "overlay::initialize",
                 "r_environment::initialize")
    /\ UNCHANGED <<sigVars, idleVars, serverOptions, effectiveUser, httpVars>>

\* detected = r_environment::initialize(&errMsg);
\* if (!detected && overlay::requireLocalR()) return EXIT_FAILURE
DetectREnvironment ==
    /\ At("r_environment::initialize")
    /\ \E detected \in BOOLEAN, required \in BOOLEAN :
          LET log1 == Append(calls, Entry("r_environment::initialize",
                                          IF detected THEN "true" ELSE "false"))
              log2 == Append(log1, Entry("overlay::requireLocalR",
                                         IF required THEN "true" ELSE "false"))
          IN  IF detected THEN Proceed(log1, "httpServerAddHandlers")
              ELSE IF required THEN Returns(log2, "EXIT_FAILURE")
              ELSE Proceed(log2, "httpServerAddHandlers")
    /\ UNCHANGED <<sigVars, idleVars, serverOptions, effectiveUser, httpVars>>

\* if (serverOffline()) offline::httpServerAddHandlers(), which lies outside
\* ServerMain.cpp and is taken to install the offline default handler;
\* else httpServerAddHandlers(): the add, addProxyHandler and addBlocking
\* calls in order, then setBlockingDefault(blockingFileHandler())
httpServerAddHandlers ==
    /\ At("httpServerAddHandlers")
    /\ IF serverOptions.serverOffline
       THEN /\ Proceed(Append(calls, Entry("offline::httpServerAddHandlers", "ok")),
                       "temporarilyDropPriv")
            /\ defaultHandler' = "offline::handleOfflineRequest"
            /\ UNCHANGED registry
       ELSE /\ Proceed(Append(calls, Entry("httpServerAddHandlers", "ok")),
                       "addins::initialize")
            /\ registry' = registry \o HandlerTable(serverOptions.wwwProxyLocalhost)
            /\ defaultHandler' = "blockingFileHandler"
    /\ UNCHANGED <<sigVars, idleVars, serverOptions, effectiveUser,
                   s_pHttpServer, notFoundHandler, running, request, served>>

\* addins::initialize()
AddinsInitialize ==
    /\ ErrorStep("addins::initialize", "addins::initialize",
                 "pam_auth::initialize")
    /\ UNCHANGED <<sigVars, idleVars, serverOptions, effectiveUser, httpVars>>

\* if (!auth::handler::isRegistered()) pam_auth::initialize()
PamAuthInitialize ==
    /\ At("pam_auth::initialize")
    /\ \E isRegistered \in BOOLEAN, ok \in BOOLEAN :
          LET log1 == Append(calls, Entry("auth::handler::isRegistered",
                                     IF isRegistered THEN "true" ELSE "false"))
              log2 == Append(log1, Entry("pam_auth::initialize",
                                     IF ok THEN "ok" ELSE "error"))
          IN  IF isRegistered THEN Proceed(log1, "temporarilyDropPriv")
              ELSE IF ok THEN Proceed(log2, "temporarilyDropPriv")
              ELSE exitFailure(log2)
    /\ UNCHANGED <<sigVars, idleVars, serverOptions, effectiveUser, httpVars>>

\* the privilege drop whose error is logged and then ignored
TemporarilyDropPriv_ErrorIgnored ==
    /\ At("temporarilyDropPriv")
    /\ IF serverOptions.serverUser = ""
       THEN Proceed(calls, "runVerifyInstallationSession")
            /\ UNCHANGED effectiveUser
       ELSE \E ok \in BOOLEAN :
               /\ Proceed(Append(calls, Entry("temporarilyDropPriv",
                                              IF ok THEN "ok" ELSE "error")),
                          "runVerifyInstallationSession")
               /\ effectiveUser' = IF ok THEN serverOptions.serverUser
                                   ELSE effectiveUser
    /\ UNCHANGED <<sigVars, idleVars, serverOptions, httpVars>>

\* if (!runAsUser.empty()) core::system::temporarilyDropPriv(runAsUser)
TemporarilyDropPriv ==
    /\ At("temporarilyDropPriv")
    /\ IF serverOptions.serverUser = ""
       THEN Proceed(calls, "runVerifyInstallationSession")
            /\ UNCHANGED effectiveUser
       ELSE \E ok \in BOOLEAN :
               IF ok
               THEN /\ Proceed(Append(calls, Entry("temporarilyDropPriv", "ok")),
                               "runVerifyInstallationSession")
                    /\ effectiveUser' = serverOptions.serverUser
               ELSE /\ exitFailure(
                          Append(calls, Entry("temporarilyDropPriv", "error")))
                    /\ UNCHANGED effectiveUser
    /\ UNCHANGED <<sigVars, idleVars, serverOptions, httpVars>>

\* the verify-installation block returning EXIT_FAILURE on failure as on
\* success
VerifyInstallation_AlwaysSuccess ==
    /\ At("runVerifyInstallationSession")
    /\ IF ~serverOptions.verifyInstallation
       THEN Proceed(calls, "overlay::startup")
       ELSE \E ok \in BOOLEAN :
               Returns(Append(calls, Entry("runVerifyInstallationSession",
                                           IF ok THEN "ok" ELSE "error")),
                       "EXIT_SUCCESS")
    /\ UNCHANGED <<sigVars, idleVars, serverOptions, effectiveUser, httpVars>>

\* if (options.verifyInstallation()): runVerifyInstallationSession(), then
\* return EXIT_SUCCESS
VerifyInstallation ==
    /\ At("runVerifyInstallationSession")
    /\ IF ~serverOptions.verifyInstallation
       THEN Proceed(calls, "overlay::startup")
       ELSE \E ok \in BOOLEAN :
               IF ok
               THEN Returns(Append(calls,
                               Entry("runVerifyInstallationSession", "ok")),
                            "EXIT_SUCCESS")
               ELSE exitFailure(Append(calls,
                               Entry("runVerifyInstallationSession", "error")))
    /\ UNCHANGED <<sigVars, idleVars, serverOptions, effectiveUser, httpVars>>

\* overlay::startup()
OverlayStartup ==
    /\ ErrorStep("overlay::startup", "overlay::startup", "setNotFoundHandler")
    /\ UNCHANGED <<sigVars, idleVars, serverOptions, effectiveUser, httpVars>>

\* s_pHttpServer->setNotFoundHandler(pageNotFoundHandler)
SetNotFoundHandler ==
    /\ At("setNotFoundHandler")
    /\ Proceed(Append(calls, Entry("setNotFoundHandler", "ok")), "run")
    /\ notFoundHandler' = "pageNotFoundHandler"
    /\ UNCHANGED <<sigVars, idleVars, serverOptions, effectiveUser,
                   s_pHttpServer, registry, defaultHandler, running, request,
                   served>>

\* the statements of main up to the call of run
StartupSteps ==
    {"options.read", "daemonize", "setResourceLimit", "makeCurrentPath",
     "crypto::initialize", "secure_cookie::initialize",
     "session_proxy::initialize", "httpServerInit",
     "process_supervisor::initialize", "initializeMonitorClient",
     "overlay::initialize", "r_environment::initialize",
     "httpServerAddHandlers", "addins::initialize", "pam_auth::initialize",
     "temporarilyDropPriv", "runVerifyInstallationSession", "overlay::startup",
     "setNotFoundHandler", "run"}

\* CATCH_UNEXPECTED_EXCEPTION: a statement of main throws, main returns
\* EXIT_FAILURE
UnexpectedException ==
    /\ mainPc \in StartupSteps /\ process = "running"
    /\ Returns(Append(calls, Entry(mainPc, "exception")), "EXIT_FAILURE")
    /\ UNCHANGED <<sigVars, idleVars, serverOptions, effectiveUser, httpVars>>

NextMain ==
    \/ ReadOptions
    \/ Daemonize
    \/ SetResourceLimit
    \/ MakeCurrentPath
    \/ CryptoInitialize
    \/ SecureCookieInitialize
    \/ SessionProxyInitialize
    \/ httpServerInit
    \/ ProcessSupervisorInitialize
    \/ InitializeMonitorClient
    \/ OverlayInitialize
    \/ DetectREnvironment
    \/ httpServerAddHandlers
    \/ AddinsInitialize
    \/ PamAuthInitialize
    \/ TemporarilyDropPriv
    \/ VerifyInstallation
    \/ OverlayStartup
    \/ SetNotFoundHandler
    \/ UnexpectedException
    \/ RunServer
    \/ InstallSIGCHLDHandler
    \/ BlockWaitMask
    \/ SigwaitFails

SpecMain == InitMain /\ [][NextMain]_vars

(***************************************************************************)
(* Claims about main's startup.                                            *)
(***************************************************************************)
\* the call e reports a failure: an Error returned, an exception thrown, or
\* R required and not detected
Failed(e) ==
    \/ e.result \in {"error", "exception"}
    \/ e = Entry("overlay::requireLocalR", "true")

\* the calls whose success main needs under options o before it calls run
RequiredCalls(o) ==
    {"makeCurrentPath", "secure_cookie::initialize", "session_proxy::initialize",
     "httpServerInit", "process_supervisor::initialize", "overlay::initialize",
     "overlay::startup"}
    \cup (IF o.serverDaemonize THEN {"daemonize", "ignoreTerminalSignals"} ELSE {})
    \cup (IF o.realUserIsRoot THEN {"setResourceLimit"} ELSE {})
    \cup (IF o.serverOffline THEN {} ELSE {"addins::initialize"})
    \cup (IF o.serverUser # "" THEN {"temporarilyDropPriv"} ELSE {})

\* C13: a failed initialization step is the last thing main does: main has
\* returned EXIT_FAILURE, no later step was executed and the server is not
\* running; and when run is invoked, every step before it has succeeded.
C13_StartupFailureAborts ==
    /\ \A i \in 1..Len(calls) :
          (Failed(calls[i]) /\ \A k \in 1..(i - 1) : calls[k].call # "run") =>
              /\ i = Len(calls)
              /\ process = "exited"
              /\ exitStatus = "EXIT_FAILURE"
              /\ ~running
    /\ \A j \in 1..Len(calls) :
          calls[j].call = "run" =>
              /\ \A i \in 1..(j - 1) : ~Failed(calls[i])
              /\ \A c \in RequiredCalls(serverOptions) :
                    \E i \in 1..(j - 1) : calls[i] = Entry(c, "ok")

\* overlay::startup has failed after every earlier step succeeded, in a
\* daemonized server: main has exited with failure and run was not invoked
C13_Witness ==
    /\ process = "exited" /\ exitStatus = "EXIT_FAILURE"
    /\ serverOptions.serverDaemonize
    /\ Len(calls) > 0
    /\ calls[Len(calls)] = Entry("overlay::startup", "error")
    /\ NumCalls(calls, "run") = 0

\* the options were read and ask for verify-installation mode
VerifyMode ==
    serverOptions.status = "run" /\ serverOptions.verifyInstallation

\* C14: in verify-installation mode main never calls overlay::startup, never
\* runs the server and never enters waitForSignals; it exits with
\* EXIT_SUCCESS exactly when every initialization step and then
\* runVerifyInstallationSession succeeded, and with EXIT_FAILURE when
\* runVerifyInstallationSession failed.
C14_VerifyInstallationExit ==
    VerifyMode =>
        /\ NumCalls(calls, "overlay::startup") = 0
        /\ NumCalls(calls, "run") = 0
        /\ ~running
        /\ mainPc \notin {"setNotFoundHandler", "run", "sigaction", "sigmask", "sigwait"}
        /\ process = "exited" =>
              (exitStatus = "EXIT_SUCCESS" <=>
                  /\ Len(calls) > 0
                  /\ calls[Len(calls)] = Entry("runVerifyInstallationSession", "ok")
                  /\ \A i \in 1..Len(calls) : ~Failed(calls[i]))
        /\ (\E i \in 1..Len(calls) :
               calls[i] = Entry("runVerifyInstallationSession", "error")) =>
              process = "exited" /\ exitStatus = "EXIT_FAILURE"

\* verify-installation mode has ended with success, after the handlers were
\* added and the privileges dropped
C14_Witness ==
    /\ VerifyMode
    /\ process = "exited" /\ exitStatus = "EXIT_SUCCESS"
    /\ calls[Len(calls)] = Entry("runVerifyInstallationSession", "ok")
    /\ registry # <<>>
    /\ effectiveUser = "rstudio-server"

\* the calls of main that register handlers with the server
RegistrationCalls ==
    {"httpServerAddHandlers", "offline::httpServerAddHandlers",
     "setNotFoundHandler"}

\* C15: the handler registry is written before serving only: a step that
\* changes the registrations, the default handler or the not-found handler
\* is taken while run has not been invoked, every registering call of main
\* precedes the run call in the log, and the registry is as main's
\* registering calls left it from then on.
C15_RegistryWriteOnce ==
    /\ [][(\/ registry' # registry
           \/ defaultHandler' # defaultHandler
           \/ notFoundHandler' # notFoundHandler) =>
              (~running /\ NumCalls(calls', "run") = 0)]_vars
    /\ [](\A j \in 1..Len(calls) :
             calls[j].call = "run" =>
                 /\ \A i \in 1..Len(calls) :
                       calls[i].call \in RegistrationCalls => i < j
                 /\ \E i \in 1..(j - 1) : calls[i].call = "setNotFoundHandler")

\* the server runs with the full table and the not-found handler, and main
\* is in the wait loop
C15_Witness ==
    /\ running /\ mainPc = "sigwait"
    /\ registry = HandlerTable(TRUE)
    /\ defaultHandler = "blockingFileHandler"
    /\ notFoundHandler = "pageNotFoundHandler"

(***************************************************************************)
(* The server at work: main from httpServerAddHandlers on, the clients of  *)
(* the uri_handlers functions, and the dispatch of requests once the       *)
(* server runs.  The table lookup, the secure wrappers and the server's    *)
(* handling of the default and not-found handlers are code of              *)
(* core::http::AsyncServer and server::auth, outside ServerMain.cpp; they  *)
(* are modelled as the specification describes them.                       *)
(***************************************************************************)
\* boost::algorithm::starts_with(s, p)
IsPrefix(p, s) == Len(p) <= Len(s) /\ SubSeq(s, 1, Len(p)) = p

\* the registrations of table whose prefix is a prefix of path
Matches(table, path) ==
    {i \in 1..Len(table) : IsPrefix(table[i].prefix, path)}

\* the lookup taking the first registration that matches
Lookup_FirstMatch(table, path) ==
    IF Matches(table, path) = {} THEN 0
    ELSE CHOOSE i \in Matches(table, path) :
            \A j \in Matches(table, path) : i <= j

\* the lookup: the registration with the longest prefix that is a prefix of
\* path, 0 when there is none
Lookup(table, path) ==
    IF Matches(table, path) = {} THEN 0
    ELSE CHOOSE i \in Matches(table, path) :
            \A j \in Matches(table, path) :
                Len(table[j].prefix) <= Len(table[i].prefix)

Registered(table, prefix) == \E i \in 1..Len(table) : table[i].prefix = prefix

\* the users with a session, and the cookies a request may carry: none, one
\* that does not validate, or the valid cookie of a user
Users == {"alice", "bob"}

Cookies == {"none", "forged"} \cup Users

\* the user a cookie validates to, "" when it does not validate
userIdentifier(cookie) == IF cookie \in Users THEN cookie ELSE ""

\* the response a handler starts from
EmptyResponse == [status |-> "Ok", contentType |-> "", body |-> ""]

\* the not-found page setting the status only where it sets the body
pageNotFoundHandler_StatusWhenRendered(pResponse, rendered) ==
    IF rendered
    THEN [pResponse EXCEPT !.contentType = "text/html", !.body = "404.htm",
                           !.status = "NotFound"]
    ELSE pResponse

\* pageNotFoundHandler: renderTemplate(404.htm) gives err or the body;
\* the status is set to NotFound in both cases
pageNotFoundHandler(pResponse, rendered) ==
    LET shown == IF rendered
                 THEN [pResponse EXCEPT !.contentType = "text/html",
                                        !.body = "404.htm"]
                 ELSE pResponse
    IN  [shown EXCEPT !.status = "NotFound"]

\* the response of the handler function h
Respond(h, rendered) ==
    IF h = "pageNotFoundHandler"
    THEN pageNotFoundHandler(EmptyResponse, rendered)
    ELSE [EmptyResponse EXCEPT !.body = h]

\* a secure wrapper calling the wrapped function whatever the cookie
SecureDispatch_NoValidation(handler, cookie, rendered) ==
    [invoked |-> handler.wrapped, principal |-> userIdentifier(cookie),
     response |-> Respond(handler.wrapped, rendered)]

\* a secure wrapper at work: the cookie is validated; the wrapped function is
\* called with the user it validates to, and is not called when it does not
\* validate: the response is then a redirect to the sign-in page or a refusal
SecureDispatch(handler, cookie, rendered) ==
    IF userIdentifier(cookie) = ""
    THEN [invoked |-> "none", principal |-> "",
          response |-> [EmptyResponse EXCEPT
                           !.status = IF handler.authenticate
                                      THEN "redirect to sign-in"
                                      ELSE "Unauthorized"]]
    ELSE [invoked |-> handler.wrapped, principal |-> userIdentifier(cookie),
          response |-> Respond(handler.wrapped, rendered)]

\* a handler of the table at work
Invoke(handler, cookie, rendered) ==
    IF handler.wrapper \in SecureWrappers
    THEN SecureDispatch(handler, cookie, rendered)
    ELSE [invoked |-> handler.wrapped, principal |-> "",
          response |-> Respond(handler.wrapped, rendered)]

\* the server serving one request: the handler of the longest matching
\* prefix; without a match the default handler, and the not-found handler
\* when the default handler cannot resolve the path or there is none
Dispatch(path, cookie, resolved, rendered) ==
    LET i == Lookup(registry, path)
        missing == IF notFoundHandler = "none"
                   THEN [EmptyResponse EXCEPT !.status = "NotFound"]
                   ELSE Respond(notFoundHandler, rendered)
    IN  IF i # 0
        THEN [route |-> "handler", prefix |-> registry[i].prefix,
              notFound |-> "none", resolved |-> resolved, rendered |-> rendered]
             @@ Invoke(registry[i].handler, cookie, rendered)
        ELSE IF defaultHandler # "none" /\ resolved
        THEN [route |-> "default", prefix |-> <<>>, invoked |-> defaultHandler,
              principal |-> "", notFound |-> "none",
              resolved |-> resolved, rendered |-> rendered,
              response |-> [EmptyResponse EXCEPT !.body = defaultHandler]]
        ELSE [route |-> IF defaultHandler # "none" THEN "default" ELSE "notFound",
              prefix |-> <<>>, invoked |-> defaultHandler,
              principal |-> "", notFound |-> notFoundHandler,
              resolved |-> resolved, rendered |-> rendered,
              response |-> missing]

\* the request paths tried
RequestPaths ==
    {<<"/", "a", "/", "b", "/", "c">>,
     <<"/", "a", "b">>,
     <<"/", "n", "o", "n", "e", "x", "i", "s", "t", "e", "n", "t">>,
     <<"/", "t", "e", "m", "p", "l", "a", "t", "e", "s", "/", "x">>,
     <<"/", "u", "p", "l", "o", "a", "d", "/", "f">>,
     <<"/", "r", "p", "c">>}

\* what a registering call does when the server is already running, which the
\* specification leaves undefined
LateRegistration == {"added", "rejected"}

\* s_pHttpServer->addHandler, addProxyHandler or addBlockingHandler with the
\* registration reg
Register(reg) ==
    /\ process = "running" /\ s_pHttpServer = "server"
    /\ ~Registered(registry, reg.prefix)
    /\ IF ~running
       THEN registry' = Append(registry, reg)
       ELSE \E outcome \in LateRegistration :
               registry' = IF outcome = "added" THEN Append(registry, reg)
                           ELSE registry
    /\ UNCHANGED <<mainPc, process, exitStatus, sigVars, calls, idleVars,
                   serverOptions, effectiveUser, s_pHttpServer, defaultHandler,
                   notFoundHandler, running, request, served>>

\* s_pHttpServer->setDefaultHandler or setBlockingDefaultHandler
RegisterDefault(handler) ==
    /\ process = "running" /\ s_pHttpServer = "server"
    /\ handler # defaultHandler
    /\ IF ~running
       THEN defaultHandler' = handler
       ELSE \E outcome \in LateRegistration :
               defaultHandler' = IF outcome = "added" THEN handler
                                 ELSE defaultHandler
    /\ UNCHANGED <<mainPc, process, exitStatus, sigVars, calls, idleVars,
                   serverOptions, effectiveUser, s_pHttpServer, registry,
                   notFoundHandler, running, request, served>>

\* uri_handlers::add(prefix, handler), called by a module of the server
uri_handlers_add ==
    Register(addHandler(<<"/", "a">>, secureAsyncHttpHandler("handlerA", FALSE)))

\* uri_handlers::addProxyHandler(prefix, handler)
uri_handlers_addProxyHandler ==
    Register(addProxyHandler(<<"/", "a", "/", "p">>, secureAsyncHttpHandler("handlerAP", TRUE)))

\* uri_handlers::addBlocking(prefix, handler)
uri_handlers_addBlocking ==
    Register(addBlockingHandler(<<"/", "a", "/", "b">>, Unwrapped("handlerAB")))

\* uri_handlers::setDefault(handler)
uri_handlers_setDefault == RegisterDefault("asyncDefaultHandler")

\* uri_handlers::setBlockingDefault(handler)
uri_handlers_setBlockingDefault == RegisterDefault("blockingDefaultHandler")

\* the running server takes a request from a connection and serves it
HandleRequest ==
    /\ process = "running" /\ running
    /\ request = NoRequest
    /\ \E path \in RequestPaths, cookie \in Cookies,
          resolved \in BOOLEAN, rendered \in BOOLEAN :
          /\ request' = [path |-> path, cookie |-> cookie]
          /\ served' = Dispatch(path, cookie, resolved, rendered)
    /\ UNCHANGED <<mainPc, process, exitStatus, sigVars, calls, idleVars,
                   serverOptions, effectiveUser, s_pHttpServer, registry,
                   defaultHandler, notFoundHandler, running>>

\* the response is written and the connection closed
FinishRequest ==
    /\ process = "running" /\ running
    /\ request # NoRequest
    /\ request' = NoRequest
    /\ served' = NotServed
    /\ UNCHANGED <<mainPc, process, exitStatus, sigVars, calls, idleVars,
                   serverOptions, effectiveUser, s_pHttpServer, registry,
                   defaultHandler, notFoundHandler, running>>

\* main has detected R and is about to add the handlers, in the serving
\* configuration
InitRegistry ==
    /\ OthersIdle
    /\ mainPc = "httpServerAddHandlers"
    /\ process = "running"
    /\ exitStatus = "none"
    /\ sigmask = {}
    /\ disposition = [s \in wait_mask |-> "SIG_DFL"]
    /\ pending = {}
    /\ sig = "none"
    /\ calls = <<>>
    /\ serverOptions = ServingOptions
    /\ effectiveUser = "root"
    /\ s_pHttpServer = "server"
    /\ registry = <<>>
    /\ defaultHandler = "none"
    /\ notFoundHandler = "none"
    /\ running = FALSE
    /\ request = NoRequest
    /\ served = NotServed

NextRegistry ==
    \/ httpServerAddHandlers
    \/ AddinsInitialize
    \/ PamAuthInitialize
    \/ TemporarilyDropPriv
    \/ VerifyInstallation
    \/ OverlayStartup
    \/ SetNotFoundHandler
    \/ RunServer
    \/ uri_handlers_add
    \/ uri_handlers_addProxyHandler
    \/ uri_handlers_addBlocking
    \/ uri_handlers_setDefault
    \/ uri_handlers_setBlockingDefault
    \/ HandleRequest
    \/ FinishRequest

SpecRegistry == InitRegistry /\ [][NextRegistry]_vars

(***************************************************************************)
(* Claims about the handler registry and the dispatch of requests.         *)
(***************************************************************************)
\* C16: once the server runs, a call of uri_handlers::add, addProxyHandler,
\* addBlocking, setDefault or setBlockingDefault is rejected: no step taken
\* while the server runs changes the registrations or the default handler.
C16_LateRegistrationRejected ==
    [][running => UNCHANGED <<registry, defaultHandler>>]_vars

\* this step is the server serving a request
Serving == request = NoRequest /\ request' # NoRequest

\* the registered prefixes that are literal prefixes of path
MatchingPrefixes(path) ==
    {registry[i].prefix : i \in Matches(registry, path)}

HandlerOf(prefix) ==
    registry[CHOOSE i \in 1..Len(registry) : registry[i].prefix = prefix].handler

\* C18: a request routed to a handler built by secureAsyncJsonRpcHandler,
\* secureAsyncHttpHandler or secureAsyncUploadHandler reaches the wrapped
\* function only with a cookie that validates, and then with the user of that
\* cookie as principal; with no cookie or an invalid one the wrapped function
\* is not invoked and the response is an authentication failure.
C18_SecureDispatchAuthenticates ==
    [][(Serving /\ served'.route = "handler"
                /\ HandlerOf(served'.prefix).wrapper \in SecureAsyncWrappers) =>
          IF request'.cookie \in Users
          THEN /\ served'.invoked = HandlerOf(served'.prefix).wrapped
               /\ served'.principal = request'.cookie
          ELSE /\ served'.invoked = "none"
               /\ served'.principal = ""
               /\ served'.response.status \in {"redirect to sign-in", "Unauthorized"}
               /\ served'.response.body = ""]_vars

\* an upload request with a forged cookie was refused without a call of
\* proxyContentRequest
C18_Witness ==
    /\ request = [path |-> <<"/", "u", "p", "l", "o", "a", "d", "/", "f">>, cookie |-> "forged"]
    /\ served.route = "handler" /\ served.prefix = <<"/", "u", "p", "l", "o", "a", "d">>
    /\ HandlerOf(served.prefix) = secureAsyncUploadHandler("proxyContentRequest")
    /\ served.invoked = "none"
    /\ served.response.status = "Unauthorized"

\* C19: a response produced by pageNotFoundHandler, as the not-found handler
\* or as the handler of /templates, has the status NotFound whether or not
\* the page was rendered, and has a content type and a body only when it was.
C19_NotFoundAlways404 ==
    (served.invoked = "pageNotFoundHandler"
        \/ served.notFound = "pageNotFoundHandler") =>
        /\ served.response.status = "NotFound"
        /\ IF served.rendered
           THEN /\ served.response.contentType = "text/html"
                /\ served.response.body = "404.htm"
           ELSE /\ served.response.contentType = ""
                /\ served.response.body = ""

\* a request below /templates was answered by pageNotFoundHandler with
\* NotFound although the page could not be rendered
C19_Witness ==
    /\ request.path = <<"/", "t", "e", "m", "p", "l", "a", "t", "e", "s", "/", "x">>
    /\ served.route = "handler" /\ served.prefix = <<"/", "t", "e", "m", "p", "l", "a", "t", "e", "s">>
    /\ served.invoked = "pageNotFoundHandler"
    /\ ~served.rendered
    /\ served.response = [status |-> "NotFound", contentType |-> "", body |-> ""]

(***************************************************************************)
(* Claims about the routing table, the server pointer and the privileges.  *)
(***************************************************************************)
\* the paths the table is probed with: every registered prefix, every
\* registered prefix with a sub-path, and the request paths
ProbePaths ==
    {registry[i].prefix : i \in 1..Len(registry)}
    \cup {registry[i].prefix \o <<"/", "x">> : i \in 1..Len(registry)}
    \cup RequestPaths

\* C22: in the table httpServerAddHandlers builds, with or without the /p/
\* and /p6/ handlers, no prefix is registered twice and none is a literal
\* prefix of another; hence no path matches more than one registration.
C22_NoPrefixOverlap ==
    /\ \A i \in 1..Len(registry), j \in 1..Len(registry) :
          i # j => ~IsPrefix(registry[i].prefix, registry[j].prefix)
    /\ \A path \in ProbePaths : Cardinality(Matches(registry, path)) <= 1

\* httpServerAddHandlers has returned with the proxy handlers registered
C22_Witness ==
    /\ mainPc = "addins::initialize"
    /\ serverOptions.wwwProxyLocalhost
    /\ registry = HandlerTable(TRUE)
    /\ Len(registry) = Len(AsyncHandlers) + 2 + Len(BlockingHandlers)

\* the statements of main that dereference s_pHttpServer, themselves or
\* through uri_handlers and scheduler
DerefSteps ==
    {"process_supervisor::initialize", "initializeMonitorClient",
     "httpServerAddHandlers", "addins::initialize", "pam_auth::initialize",
     "setNotFoundHandler", "run"}

\* the logged calls that dereference s_pHttpServer
DerefCalls == DerefSteps \cup {"offline::httpServerAddHandlers"}

\* the successful httpServerInit is logged among the first n calls
InitializedBy(n) ==
    \E j \in 1..n : calls[j] = Entry("httpServerInit", "ok")

\* C23: no statement of main that dereferences s_pHttpServer is reached or
\* has run while the pointer is null: a successful httpServerInit precedes
\* process_supervisor::initialize, the monitor client initialization, the
\* handler registration, addins and PAM initialization, setNotFoundHandler
\* and run.
C23_ServerSetBeforeUse ==
    /\ \A step \in DerefSteps :
          At(step) => s_pHttpServer = "server" /\ InitializedBy(Len(calls))
    /\ \A i \in 1..Len(calls) :
          calls[i].call \in DerefCalls =>
              s_pHttpServer = "server" /\ InitializedBy(i - 1)

\* every dereferencing statement of a serving configuration has run
C23_Witness ==
    /\ mainPc = "sigaction" /\ running
    /\ s_pHttpServer = "server"
    /\ \A c \in DerefSteps : \E i \in 1..Len(calls) : calls[i] = Entry(c, "ok")

\* the statements of main that follow the privilege drop
AfterDropSteps ==
    {"runVerifyInstallationSession", "overlay::startup", "setNotFoundHandler",
     "run", "sigaction", "sigmask", "sigwait"}

\* the logged calls of the statements up to run that follow the drop
AfterDropCalls ==
    {"runVerifyInstallationSession", "overlay::startup", "setNotFoundHandler",
     "run"}

\* the logged calls of the handler registration, addins and PAM block
BeforeDropCalls ==
    {"httpServerAddHandlers", "offline::httpServerAddHandlers",
     "addins::initialize", "auth::handler::isRegistered",
     "pam_auth::initialize"}

\* the successful privilege drop is logged among the first n calls
DroppedBy(n) ==
    \E d \in 1..n : calls[d] = Entry("temporarilyDropPriv", "ok")

====
